---- MODULE Spec2Model ----
(***************************************************************************)
(* Spell lifecycle of sorcerer/src/spell_builtins.rs: spell_install,       *)
(* spell_remove, spell_update_config, spell_list and get_spell_info, run   *)
(* as concurrent asynchronous tasks against the key manager, the spell     *)
(* storage (registry), the particle app services and the spell event bus.  *)
(* Every collaborator call is one step; a call that returns a Result may   *)
(* fail.                                                                   *)
(***************************************************************************)
EXTENDS Integers, Sequences, FiniteSets, TLC

\* Number of service ids create_service can hand out.
MaxSpells == 2
\* Number of builtin calls that can be in flight at once.
MaxProcs == 2
\* Number of collaborator calls that fail in one run.
MaxFailures == 2

Procs == 1..MaxProcs
SpellIds == 1..MaxSpells

\* ------------------------------------------------------------- identities
Management == "mgmt"
HostId == "host"
Peers == {"mgmt", "host", "w1", "w2", "c1", "ghost"}
\* params.host_id: the worker a particle is executed on.
Targets == {"host", "w1", "w2", "ghost"}

None == <<>>
Some(x) == <<x>>

\* KeyManager: the management peer, the host (root) peer, the recorded creators.
IsManagement(peer) == peer = Management
IsHost(peer) == peer = HostId
WorkerCreators == [w \in {"host", "w1", "w2"} |-> IF w = "w2" THEN "w1" ELSE "c1"]
GetWorkerCreator(worker) == IF worker \in DOMAIN WorkerCreators THEN Some(WorkerCreators[worker]) ELSE None

\* ------------------------------------------------------------- trigger configs
\* A user trigger config is a set of trigger specifications.
UserConfigs == {{}, {"clock", "event"}, {"badclock"}}
Scripts == {"echo 1"}
InitData == {"{}"}

ResolveTrigger(t) == IF t = "clock" THEN "timer" ELSE "peer_event"
\* api::from_user_config: Err on a malformed trigger, Ok(None) when no trigger is
\* active, Ok(Some(resolved)) otherwise.
FromUserConfig(ucfg) ==
    IF "badclock" \in ucfg THEN [ok |-> FALSE, val |-> None]
    ELSE IF ucfg = {} THEN [ok |-> TRUE, val |-> None]
    ELSE [ok |-> TRUE, val |-> Some({ResolveTrigger(t) : t \in ucfg})]

VARIABLES registry, services, subs, nextId, published, ops, removed, failures, pair

vars == <<registry, services, subs, nextId, published, ops, removed, failures, pair>>

\* ------------------------------------------------------------- collaborators' state
NoService == [exists |-> FALSE, owner |-> "none", script |-> None, data |-> None, config |-> None]
NewService(owner) == [exists |-> TRUE, owner |-> owner, script |-> None, data |-> None, config |-> None]

\* SpellStorage: worker -> set of spell ids; a worker may have no entry (None).
RegisteredSpells(reg, worker) == IF reg[worker] = None THEN {} ELSE reg[worker][1]
RegisterSpell(reg, worker, spell_id) ==
    [reg EXCEPT ![worker] = Some(RegisteredSpells(reg, worker) \cup {spell_id})]
UnregisterSpell(reg, worker, spell_id) ==
    IF reg[worker] = None THEN reg
    ELSE [reg EXCEPT ![worker] = Some(RegisteredSpells(reg, worker) \ {spell_id})]

\* ParticleAppServices
ServiceExists(svcs, spell_id) == spell_id \in SpellIds /\ svcs[spell_id].exists
\* call_function reaches the service only when it exists and belongs to the worker.
CanCall(svcs, worker, spell_id) == ServiceExists(svcs, spell_id) /\ svcs[spell_id].owner = worker
\* remove_service destroys the instance only when it belongs to the worker.
CanRemoveService(svcs, worker, spell_id) == ServiceExists(svcs, spell_id) /\ svcs[spell_id].owner = worker
\* to_service_id resolves an id (or alias) to the id of an existing service.
ToServiceId(svcs, worker, spell_id) == IF ServiceExists(svcs, spell_id) THEN Some(spell_id) ELSE None

\* A collaborator call that returns a Result succeeds or fails.
Outcomes == IF failures < MaxFailures THEN BOOLEAN ELSE {TRUE}
Spend(ok) == IF ok THEN failures ELSE failures + 1

Snapshot == [registry |-> registry, services |-> services, subs |-> subs]

\* ------------------------------------------------------------- tasks
Idle == [kind |-> "none", pc |-> "idle", caller |-> "none", worker |-> "none", sid |-> 0,
         script |-> "none", data |-> "none", ucfg |-> {}, rcfg |-> None,
         result |-> "none", val |-> None, calls |-> <<>>, pre |-> None]

\* env: the callers, target workers and configs the requests are drawn from, and
\* whether a task records the state it started in.
Begin(env, kind, caller, worker, sid, script, data, ucfg) ==
    [Idle EXCEPT !.kind = kind, !.pc = "start", !.caller = caller, !.worker = worker, !.sid = sid,
                 !.script = script, !.data = data, !.ucfg = ucfg,
                 !.pre = IF env.snapshot THEN Some(Snapshot) ELSE None]

\* The calls a task made, in order, each with whether it succeeded.
Log(o, name, ok) == [o EXCEPT !.calls = Append(@, [call |-> name, ok |-> ok])]
Goto(o, pc) == [o EXCEPT !.pc = pc]
Return(o, result) == [o EXCEPT !.pc = "done", !.result = result]

\* ------------------------------------------------------------- spell_install
\* spell_install without its root-scope check.
InstallPermissionNoRootCheck(caller, worker) ==
    LET is_management == IsManagement(caller)
        worker_creator == GetWorkerCreator(worker)
    IN IF worker_creator = None THEN "UnknownWorker"
       ELSE IF ~is_management /\ ~(caller = worker) /\ ~(caller = worker_creator[1]) THEN "Unauthorized"
       ELSE "Ok"

\* spell_install without the `init_peer_id == worker_id` alternative.
InstallPermissionNoSelf(caller, worker) ==
    LET is_management == IsManagement(caller)
        worker_creator == GetWorkerCreator(worker)
    IN IF IsHost(worker) /\ ~is_management THEN "RootScope"
       ELSE IF worker_creator = None THEN "UnknownWorker"
       ELSE IF ~is_management /\ ~(caller = worker_creator[1]) THEN "Unauthorized"
       ELSE "Ok"

\* The checks of spell_install: the root scope, the creator lookup, the three roles.
InstallPermission(caller, worker) ==
    LET is_management == IsManagement(caller)
        worker_creator == GetWorkerCreator(worker)
    IN IF IsHost(worker) /\ ~is_management THEN "RootScope"
       ELSE IF worker_creator = None THEN "UnknownWorker"
       ELSE IF ~is_management /\ ~(caller = worker) /\ ~(caller = worker_creator[1]) THEN "Unauthorized"
       ELSE "Ok"

\* spell_install normalizing the config before its permission checks.
InstallEnterValidatingFirst(o) ==
    LET cfg == FromUserConfig(o.ucfg)
        normd == Log(o, "from_user_config", cfg.ok)
        perm == InstallPermission(o.caller, o.worker)
        authd == Log(normd, "authorize", perm = "Ok")
    IN IF ~cfg.ok THEN Return(normd, "ValidationError")
       ELSE IF perm # "Ok" THEN Return(authd, perm)
       ELSE [Goto(authd, "create_service") EXCEPT !.rcfg = cfg.val]

\* install_spell dropping the error of from_user_config (unwrap_or(None) for `?`).
InstallEnterUnvalidated(o) ==
    LET perm == InstallPermission(o.caller, o.worker)
        authd == Log(o, "authorize", perm = "Ok")
        cfg == FromUserConfig(o.ucfg)
        normd == Log(authd, "from_user_config", cfg.ok)
    IN IF perm # "Ok" THEN Return(authd, perm)
       ELSE [Goto(normd, "create_service") EXCEPT !.rcfg = cfg.val]

\* spell_install up to the first mutation of install_spell: the permission checks,
\* then install_spell's from_user_config.
InstallEnter(o) ==
    LET perm == InstallPermission(o.caller, o.worker)
        authd == Log(o, "authorize", perm = "Ok")
        cfg == FromUserConfig(o.ucfg)
        normd == Log(authd, "from_user_config", cfg.ok)
    IN IF perm # "Ok" THEN Return(authd, perm)
       ELSE IF ~cfg.ok THEN Return(normd, "ValidationError")
       ELSE [Goto(normd, "create_service") EXCEPT !.rcfg = cfg.val]

SpellInstall(p, env) ==
    /\ ops[p].pc = "idle"
    /\ \E caller \in env.callers, worker \in env.workers, script \in Scripts, data \in InitData, ucfg \in env.configs :
         ops' = [ops EXCEPT ![p] = InstallEnter(Begin(env, "install", caller, worker, 0, script, data, ucfg))]
    /\ UNCHANGED <<registry, services, subs, nextId, published, removed, failures>>

\* services.create_service(ServiceType::Spell, blueprint, worker_id, worker_id)?
InstallCreateService(p) ==
    /\ ops[p].kind = "install" /\ ops[p].pc = "create_service"
    /\ \E ok \in Outcomes :
         /\ failures' = Spend(ok)
         /\ IF ok /\ nextId <= MaxSpells
            THEN /\ services' = [services EXCEPT ![nextId] = NewService(ops[p].worker)]
                 /\ nextId' = nextId + 1
                 /\ ops' = [ops EXCEPT ![p] = Goto(Log([@ EXCEPT !.sid = nextId], "create_service", TRUE), "register_spell")]
            ELSE /\ ops' = [ops EXCEPT ![p] = Return(Log(@, "create_service", FALSE), "ServiceError")]
                 /\ UNCHANGED <<services, nextId>>
    /\ UNCHANGED <<registry, subs, published, removed>>

\* spell_storage.register_spell(worker_id, spell_id.clone())
InstallRegister(p) ==
    /\ ops[p].kind = "install" /\ ops[p].pc = "register_spell"
    /\ registry' = RegisterSpell(registry, ops[p].worker, ops[p].sid)
    /\ published' = published \cup {ops[p].sid}
    /\ ops' = [ops EXCEPT ![p] = Goto(Log(@, "register_spell", TRUE), "set_script_source_to_file")]
    /\ UNCHANGED <<services, subs, nextId, removed, failures>>

\* set_trigger_config given the resolved config instead of the user's.
StoreFieldResolved(svc, method, o) ==
    IF method = "set_script_source_to_file" THEN [svc EXCEPT !.script = Some(o.script)]
    ELSE IF method = "set_json_fields" THEN [svc EXCEPT !.data = Some(o.data)]
    ELSE [svc EXCEPT !.config = Some(IF o.rcfg = None THEN {} ELSE o.rcfg[1])]

\* What a set_* call of the spell service writes.
StoreField(svc, method, o) ==
    IF method = "set_script_source_to_file" THEN [svc EXCEPT !.script = Some(o.script)]
    ELSE IF method = "set_json_fields" THEN [svc EXCEPT !.data = Some(o.data)]
    ELSE [svc EXCEPT !.config = Some(o.ucfg)]

\* install_spell subscribing without the `if let Some(config)`.
InstallAfterCallAlwaysSubscribe(method, o) ==
    IF method = "set_script_source_to_file" THEN "set_json_fields"
    ELSE IF method = "set_json_fields" THEN "set_trigger_config"
    ELSE "subscribe"

\* The step after a successful persistence call of install_spell.
InstallAfterCall(method, o) ==
    IF method = "set_script_source_to_file" THEN "set_json_fields"
    ELSE IF method = "set_json_fields" THEN "set_trigger_config"
    ELSE IF o.rcfg # None THEN "subscribe"
    ELSE "return_ok"

\* install_spell rolling the spell back on a failed persistence call.
InstallCallCompensated(p, method) ==
    /\ ops[p].kind = "install" /\ ops[p].pc = method
    /\ \E ok \in Outcomes :
         /\ failures' = Spend(ok)
         /\ IF ok /\ CanCall(services, ops[p].worker, ops[p].sid)
            THEN /\ services' = [services EXCEPT ![ops[p].sid] = StoreField(@, method, ops[p])]
                 /\ ops' = [ops EXCEPT ![p] =
                       LET next == InstallAfterCall(method, @)
                       IN IF next = "return_ok" THEN Return(Log(@, method, TRUE), "Ok")
                          ELSE Goto(Log(@, method, TRUE), next)]
            ELSE /\ ops' = [ops EXCEPT ![p] = Goto(Log(@, method, FALSE), "rollback_unregister")]
                 /\ UNCHANGED services
    /\ UNCHANGED <<registry, subs, nextId, published, removed>>

\* process_func_outcome(services.call_function(worker_id, &spell_id, method, ..))?
InstallCall(p, method) ==
    /\ ops[p].kind = "install" /\ ops[p].pc = method
    /\ \E ok \in Outcomes :
         /\ failures' = Spend(ok)
         /\ IF ok /\ CanCall(services, ops[p].worker, ops[p].sid)
            THEN /\ services' = [services EXCEPT ![ops[p].sid] = StoreField(@, method, ops[p])]
                 /\ ops' = [ops EXCEPT ![p] =
                       LET next == InstallAfterCall(method, @)
                       IN IF next = "return_ok" THEN Return(Log(@, method, TRUE), "Ok")
                          ELSE Goto(Log(@, method, TRUE), next)]
            ELSE /\ ops' = [ops EXCEPT ![p] = Return(Log(@, method, FALSE), "CallError")]
                 /\ UNCHANGED services
    /\ UNCHANGED <<registry, subs, nextId, published, removed>>

\* spell_event_bus_api.subscribe(spell_id.clone(), config.clone()).await
InstallSubscribe(p) ==
    /\ ops[p].kind = "install" /\ ops[p].pc = "subscribe"
    /\ \E ok \in Outcomes :
         /\ failures' = Spend(ok)
         /\ IF ok
            THEN /\ subs' = [subs EXCEPT ![ops[p].sid] = ops[p].rcfg]
                 /\ ops' = [ops EXCEPT ![p] = Return(Log(@, "subscribe", TRUE), "Ok")]
            ELSE /\ ops' = [ops EXCEPT ![p] = Goto(Log(@, "subscribe", FALSE), "rollback_unregister")]
                 /\ UNCHANGED subs
    /\ UNCHANGED <<registry, services, nextId, published, removed>>

\* On a failed subscribe: spell_storage.unregister_spell(worker_id, &spell_id)
InstallRollbackUnregister(p) ==
    /\ ops[p].kind = "install" /\ ops[p].pc = "rollback_unregister"
    /\ registry' = UnregisterSpell(registry, ops[p].worker, ops[p].sid)
    /\ ops' = [ops EXCEPT ![p] = Goto(Log(@, "unregister_spell", TRUE), "rollback_remove_service")]
    /\ UNCHANGED <<services, subs, nextId, published, removed, failures>>

\* ... then services.remove_service(..)? and the subscription error.
InstallRollbackRemoveService(p) ==
    /\ ops[p].kind = "install" /\ ops[p].pc = "rollback_remove_service"
    /\ \E ok \in Outcomes :
         /\ failures' = Spend(ok)
         /\ IF ok /\ CanRemoveService(services, ops[p].worker, ops[p].sid)
            THEN /\ services' = [services EXCEPT ![ops[p].sid] = NoService]
                 /\ ops' = [ops EXCEPT ![p] = Return(Log(@, "remove_service", TRUE), "SubscriptionError")]
            ELSE /\ ops' = [ops EXCEPT ![p] = Return(Log(@, "remove_service", FALSE), "ServiceError")]
                 /\ UNCHANGED services
    /\ UNCHANGED <<registry, subs, nextId, published, removed>>


\* ------------------------------------------------------------- spell_remove
\* spell_remove denying only the management peer: is_management tested unnegated.
RemovePermissionInverted(caller, worker) ==
    LET worker_creator == GetWorkerCreator(worker)
    IN IF worker_creator = None THEN "UnknownWorker"
       ELSE IF ~(caller = worker_creator[1]) /\ ~(caller = worker) /\ IsManagement(caller) THEN "Unauthorized"
       ELSE "Ok"

\* The checks of spell_remove: the creator lookup, then the three roles.
RemovePermission(caller, worker) ==
    LET worker_creator == GetWorkerCreator(worker)
    IN IF worker_creator = None THEN "UnknownWorker"
       ELSE IF ~(caller = worker_creator[1]) /\ ~(caller = worker) /\ ~IsManagement(caller) THEN "Unauthorized"
       ELSE "Ok"

\* spell_remove up to the call of remove_spell: the permission check, then to_service_id.
RemoveEnter(o) ==
    LET perm == RemovePermission(o.caller, o.worker)
        authd == Log(o, "authorize", perm = "Ok")
        id == ToServiceId(services, o.worker, o.sid)
        resolved == Log(authd, "to_service_id", id # None)
    IN IF perm # "Ok" THEN Return(authd, perm)
       ELSE IF id = None THEN Return(resolved, "ServiceError")
       ELSE [Goto(resolved, "unsubscribe") EXCEPT !.sid = id[1]]

\* A caller names an id it has seen (registered ids are listed by spell_list) or an
\* id that names nothing (0): service ids are random.
SpellArgs == published \cup {0}

SpellRemove(p, env) ==
    /\ ops[p].pc = "idle"
    /\ \E caller \in env.callers, worker \in env.workers, spell_id \in SpellArgs :
         ops' = [ops EXCEPT ![p] = RemoveEnter(Begin(env, "remove", caller, worker, spell_id, "none", "none", {}))]
    /\ UNCHANGED <<registry, services, subs, nextId, published, removed, failures>>

\* remove_spell dropping the subscriptions of every spell of the worker.
RemoveUnsubscribeWholeWorker(p) ==
    /\ ops[p].kind = "remove" /\ ops[p].pc = "unsubscribe"
    /\ \E ok \in Outcomes :
         /\ failures' = Spend(ok)
         /\ IF ok
            THEN /\ subs' = [s \in SpellIds |->
                                IF s = ops[p].sid \/ s \in RegisteredSpells(registry, ops[p].worker)
                                THEN None ELSE subs[s]]
                 /\ ops' = [ops EXCEPT ![p] = Goto(Log(@, "unsubscribe", TRUE), "unregister_spell")]
            ELSE /\ ops' = [ops EXCEPT ![p] = Return(Log(@, "unsubscribe", FALSE), "SubscriptionError")]
                 /\ UNCHANGED subs
    /\ UNCHANGED <<registry, services, nextId, published, removed>>

\* remove_spell without its unsubscribe.
RemoveUnsubscribeSkipped(p) ==
    /\ ops[p].kind = "remove" /\ ops[p].pc = "unsubscribe"
    /\ ops' = [ops EXCEPT ![p] = Goto(Log(@, "unsubscribe", TRUE), "unregister_spell")]
    /\ UNCHANGED <<registry, services, subs, nextId, published, removed, failures>>

\* remove_spell going on to unregister after a failed unsubscribe.
RemoveUnsubscribeIgnoringError(p) ==
    /\ ops[p].kind = "remove" /\ ops[p].pc = "unsubscribe"
    /\ \E ok \in Outcomes :
         /\ failures' = Spend(ok)
         /\ subs' = IF ok THEN [subs EXCEPT ![ops[p].sid] = None] ELSE subs
         /\ ops' = [ops EXCEPT ![p] = Goto(Log(@, "unsubscribe", ok), "unregister_spell")]
    /\ UNCHANGED <<registry, services, nextId, published, removed>>

\* remove_spell: spell_event_bus_api.unsubscribe(spell_id.clone()).await
RemoveUnsubscribe(p) ==
    /\ ops[p].kind = "remove" /\ ops[p].pc = "unsubscribe"
    /\ \E ok \in Outcomes :
         /\ failures' = Spend(ok)
         /\ IF ok
            THEN /\ subs' = [subs EXCEPT ![ops[p].sid] = None]
                 /\ ops' = [ops EXCEPT ![p] = Goto(Log(@, "unsubscribe", TRUE), "unregister_spell")]
            ELSE /\ ops' = [ops EXCEPT ![p] = Return(Log(@, "unsubscribe", FALSE), "SubscriptionError")]
                 /\ UNCHANGED subs
    /\ UNCHANGED <<registry, services, nextId, published, removed>>

\* remove_spell taking the registry only while no other builtin call is in flight.
RemoveUnregisterExclusive(p) ==
    /\ ops[p].kind = "remove" /\ ops[p].pc = "unregister_spell"
    /\ \A q \in Procs \ {p} : ops[q].pc = "idle"
    /\ registry' = UnregisterSpell(registry, ops[p].worker, ops[p].sid)
    /\ ops' = [ops EXCEPT ![p] = Goto(Log(@, "unregister_spell", TRUE), "remove_service")]
    /\ UNCHANGED <<services, subs, nextId, published, removed, failures>>

\* remove_spell without its unregister_spell.
RemoveWithoutUnregister(p) ==
    /\ ops[p].kind = "remove" /\ ops[p].pc = "unregister_spell"
    /\ ops' = [ops EXCEPT ![p] = Goto(@, "remove_service")]
    /\ UNCHANGED <<registry, services, subs, nextId, published, removed, failures>>

\* remove_spell: spell_storage.unregister_spell(worker_id, &spell_id)
RemoveUnregister(p) ==
    /\ ops[p].kind = "remove" /\ ops[p].pc = "unregister_spell"
    /\ registry' = UnregisterSpell(registry, ops[p].worker, ops[p].sid)
    /\ ops' = [ops EXCEPT ![p] = Goto(Log(@, "unregister_spell", TRUE), "remove_service")]
    /\ UNCHANGED <<services, subs, nextId, published, removed, failures>>

\* remove_spell dropping the result of remove_service (no `?`).
RemoveServiceResultDropped(p) ==
    /\ ops[p].kind = "remove" /\ ops[p].pc = "remove_service"
    /\ \E ok \in Outcomes :
         /\ failures' = Spend(ok)
         /\ IF ok /\ CanRemoveService(services, ops[p].worker, ops[p].sid)
            THEN /\ services' = [services EXCEPT ![ops[p].sid] = NoService]
                 /\ ops' = [ops EXCEPT ![p] = Return(Log(@, "remove_service", TRUE), "Ok")]
            ELSE /\ ops' = [ops EXCEPT ![p] = Return(Log(@, "remove_service", FALSE), "Ok")]
                 /\ UNCHANGED services
    /\ UNCHANGED <<registry, subs, nextId, published, removed>>

\* remove_spell: services.remove_service(particle_id, worker_id, spell_id, worker_id, true)?
RemoveRemoveService(p) ==
    /\ ops[p].kind = "remove" /\ ops[p].pc = "remove_service"
    /\ \E ok \in Outcomes :
         /\ failures' = Spend(ok)
         /\ IF ok /\ CanRemoveService(services, ops[p].worker, ops[p].sid)
            THEN /\ services' = [services EXCEPT ![ops[p].sid] = NoService]
                 /\ ops' = [ops EXCEPT ![p] = Return(Log(@, "remove_service", TRUE), "Ok")]
            ELSE /\ ops' = [ops EXCEPT ![p] = Return(Log(@, "remove_service", FALSE), "ServiceError")]
                 /\ UNCHANGED services
    /\ UNCHANGED <<registry, subs, nextId, published, removed>>

\* ------------------------------------------------------------- spell_update_config
\* spell_update_config with the root-scope check of spell_install.
UpdatePermissionRootScoped(caller, worker) ==
    LET worker_creator == GetWorkerCreator(worker)
    IN IF IsHost(worker) /\ ~IsManagement(caller) THEN "RootScope"
       ELSE IF worker_creator = None THEN "UnknownWorker"
       ELSE IF ~(caller = worker_creator[1]) /\ ~(caller = worker) /\ ~IsManagement(caller) THEN "Unauthorized"
       ELSE "Ok"

\* The checks of spell_update_config: the creator lookup, then the three roles.
UpdatePermission(caller, worker) ==
    LET worker_creator == GetWorkerCreator(worker)
    IN IF worker_creator = None THEN "UnknownWorker"
       ELSE IF ~(caller = worker_creator[1]) /\ ~(caller = worker) /\ ~IsManagement(caller) THEN "Unauthorized"
       ELSE "Ok"

\* spell_update_config up to the persistence call: the permission check,
\* to_service_id, then from_user_config.
UpdateEnter(o) ==
    LET perm == UpdatePermission(o.caller, o.worker)
        authd == Log(o, "authorize", perm = "Ok")
        id == ToServiceId(services, o.worker, o.sid)
        resolved == Log(authd, "to_service_id", id # None)
        cfg == FromUserConfig(o.ucfg)
        normd == Log(resolved, "from_user_config", cfg.ok)
    IN IF perm # "Ok" THEN Return(authd, perm)
       ELSE IF id = None THEN Return(resolved, "ServiceError")
       ELSE IF ~cfg.ok THEN Return(normd, "ValidationError")
       ELSE [Goto(normd, "set_trigger_config") EXCEPT !.sid = id[1], !.rcfg = cfg.val]

SpellUpdateConfig(p, env) ==
    /\ ops[p].pc = "idle"
    /\ \E caller \in env.callers, worker \in env.workers, spell_id \in SpellArgs, ucfg \in env.configs :
         ops' = [ops EXCEPT ![p] = UpdateEnter(Begin(env, "update_config", caller, worker, spell_id, "none", "none", ucfg))]
    /\ UNCHANGED <<registry, services, subs, nextId, published, removed, failures>>

\* spell_update_config whose persistence call also clears the key/value data.
UpdateCallClearingData(p) ==
    /\ ops[p].kind = "update_config" /\ ops[p].pc = "set_trigger_config"
    /\ \E ok \in Outcomes :
         /\ failures' = Spend(ok)
         /\ IF ok /\ CanCall(services, ops[p].worker, ops[p].sid)
            THEN /\ services' = [services EXCEPT ![ops[p].sid] =
                                    [StoreField(@, "set_trigger_config", ops[p]) EXCEPT !.data = None]]
                 /\ ops' = [ops EXCEPT ![p] = Goto(Log(@, "set_trigger_config", TRUE), "unsubscribe")]
            ELSE /\ ops' = [ops EXCEPT ![p] = Return(Log(@, "set_trigger_config", FALSE), "CallError")]
                 /\ UNCHANGED services
    /\ UNCHANGED <<registry, subs, nextId, published, removed>>

\* spell_update_config dropping the result of the persistence call (no `?`).
UpdateCallErrorIgnored(p) ==
    /\ ops[p].kind = "update_config" /\ ops[p].pc = "set_trigger_config"
    /\ \E ok \in Outcomes :
         /\ failures' = Spend(ok)
         /\ IF ok /\ CanCall(services, ops[p].worker, ops[p].sid)
            THEN /\ services' = [services EXCEPT ![ops[p].sid] = StoreField(@, "set_trigger_config", ops[p])]
                 /\ ops' = [ops EXCEPT ![p] = Goto(Log(@, "set_trigger_config", TRUE), "unsubscribe")]
            ELSE /\ ops' = [ops EXCEPT ![p] = Goto(Log(@, "set_trigger_config", FALSE), "unsubscribe")]
                 /\ UNCHANGED services
    /\ UNCHANGED <<registry, subs, nextId, published, removed>>

\* process_func_outcome(services.call_function(worker_id, &spell_id, "set_trigger_config", ..))?
UpdateCall(p) ==
    /\ ops[p].kind = "update_config" /\ ops[p].pc = "set_trigger_config"
    /\ \E ok \in Outcomes :
         /\ failures' = Spend(ok)
         /\ IF ok /\ CanCall(services, ops[p].worker, ops[p].sid)
            THEN /\ services' = [services EXCEPT ![ops[p].sid] = StoreField(@, "set_trigger_config", ops[p])]
                 /\ ops' = [ops EXCEPT ![p] = Goto(Log(@, "set_trigger_config", TRUE), "unsubscribe")]
            ELSE /\ ops' = [ops EXCEPT ![p] = Return(Log(@, "set_trigger_config", FALSE), "CallError")]
                 /\ UNCHANGED services
    /\ UNCHANGED <<registry, subs, nextId, published, removed>>

\* spell_update_config unsubscribing only when it is going to subscribe again.
UpdateUnsubscribeOnlyToResubscribe(p) ==
    /\ ops[p].kind = "update_config" /\ ops[p].pc = "unsubscribe"
    /\ \E ok \in Outcomes :
         /\ failures' = Spend(ok)
         /\ IF ok
            THEN /\ subs' = IF ops[p].rcfg # None THEN [subs EXCEPT ![ops[p].sid] = None] ELSE subs
                 /\ ops' = [ops EXCEPT ![p] =
                       IF @.rcfg # None THEN Goto(Log(@, "unsubscribe", TRUE), "subscribe")
                       ELSE Return(Log(@, "unsubscribe", TRUE), "Ok")]
            ELSE /\ ops' = [ops EXCEPT ![p] = Return(Log(@, "unsubscribe", FALSE), "SubscriptionError")]
                 /\ UNCHANGED subs
    /\ UNCHANGED <<registry, services, nextId, published, removed>>

\* spell_update_config unsubscribing only a spell that has a subscription.
UpdateUnsubscribeOnlyIfSubscribed(p) ==
    /\ ops[p].kind = "update_config" /\ ops[p].pc = "unsubscribe"
    /\ IF subs[ops[p].sid] = None
       THEN /\ ops' = [ops EXCEPT ![p] = IF @.rcfg # None THEN Goto(@, "subscribe") ELSE Return(@, "Ok")]
            /\ UNCHANGED <<subs, failures>>
       ELSE \E ok \in Outcomes :
              /\ failures' = Spend(ok)
              /\ IF ok
                 THEN /\ subs' = [subs EXCEPT ![ops[p].sid] = None]
                      /\ ops' = [ops EXCEPT ![p] =
                            IF @.rcfg # None THEN Goto(Log(@, "unsubscribe", TRUE), "subscribe")
                            ELSE Return(Log(@, "unsubscribe", TRUE), "Ok")]
                 ELSE /\ ops' = [ops EXCEPT ![p] = Return(Log(@, "unsubscribe", FALSE), "SubscriptionError")]
                      /\ UNCHANGED subs
    /\ UNCHANGED <<registry, services, nextId, published, removed>>

\* spell_update_config subscribing whatever from_user_config returned.
UpdateUnsubscribeThenAlwaysSubscribe(p) ==
    /\ ops[p].kind = "update_config" /\ ops[p].pc = "unsubscribe"
    /\ \E ok \in Outcomes :
         /\ failures' = Spend(ok)
         /\ IF ok
            THEN /\ subs' = [subs EXCEPT ![ops[p].sid] = None]
                 /\ ops' = [ops EXCEPT ![p] = Goto(Log(@, "unsubscribe", TRUE), "subscribe")]
            ELSE /\ ops' = [ops EXCEPT ![p] = Return(Log(@, "unsubscribe", FALSE), "SubscriptionError")]
                 /\ UNCHANGED subs
    /\ UNCHANGED <<registry, services, nextId, published, removed>>

\* spell_event_bus_api.unsubscribe(spell_id.clone()).await?
UpdateUnsubscribe(p) ==
    /\ ops[p].kind = "update_config" /\ ops[p].pc = "unsubscribe"
    /\ \E ok \in Outcomes :
         /\ failures' = Spend(ok)
         /\ IF ok
            THEN /\ subs' = [subs EXCEPT ![ops[p].sid] = None]
                 /\ ops' = [ops EXCEPT ![p] =
                       IF @.rcfg # None THEN Goto(Log(@, "unsubscribe", TRUE), "subscribe")
                       ELSE Return(Log(@, "unsubscribe", TRUE), "Ok")]
            ELSE /\ ops' = [ops EXCEPT ![p] = Return(Log(@, "unsubscribe", FALSE), "SubscriptionError")]
                 /\ UNCHANGED subs
    /\ UNCHANGED <<registry, services, nextId, published, removed>>

\* spell_update_config subscribing the user's config instead of its resolved form.
UpdateSubscribeUnresolved(p) ==
    /\ ops[p].kind = "update_config" /\ ops[p].pc = "subscribe"
    /\ \E ok \in Outcomes :
         /\ failures' = Spend(ok)
         /\ IF ok
            THEN /\ subs' = [subs EXCEPT ![ops[p].sid] = Some(ops[p].ucfg)]
                 /\ ops' = [ops EXCEPT ![p] = Return(Log(@, "subscribe", TRUE), "Ok")]
            ELSE /\ ops' = [ops EXCEPT ![p] = Return(Log(@, "subscribe", FALSE), "SubscriptionError")]
                 /\ UNCHANGED subs
    /\ UNCHANGED <<registry, services, nextId, published, removed>>

\* spell_update_config putting the previous subscription back on a failed subscribe.
UpdateSubscribeRestoring(p) ==
    /\ ops[p].kind = "update_config" /\ ops[p].pc = "subscribe"
    /\ \E ok \in Outcomes :
         /\ failures' = Spend(ok)
         /\ IF ok
            THEN /\ subs' = [subs EXCEPT ![ops[p].sid] = ops[p].rcfg]
                 /\ ops' = [ops EXCEPT ![p] = Return(Log(@, "subscribe", TRUE), "Ok")]
            ELSE /\ ops' = [ops EXCEPT ![p] = Return(Log(@, "subscribe", FALSE), "SubscriptionError")]
                 /\ subs' = [subs EXCEPT ![ops[p].sid] = ops[p].pre[1].subs[ops[p].sid]]
    /\ UNCHANGED <<registry, services, nextId, published, removed>>

\* spell_update_config restoring the previous config text on a failed subscribe.
UpdateSubscribeReverting(p) ==
    /\ ops[p].kind = "update_config" /\ ops[p].pc = "subscribe"
    /\ \E ok \in Outcomes :
         /\ failures' = Spend(ok)
         /\ IF ok
            THEN /\ subs' = [subs EXCEPT ![ops[p].sid] = ops[p].rcfg]
                 /\ ops' = [ops EXCEPT ![p] = Return(Log(@, "subscribe", TRUE), "Ok")]
                 /\ UNCHANGED services
            ELSE /\ ops' = [ops EXCEPT ![p] = Return(Log(@, "subscribe", FALSE), "SubscriptionError")]
                 /\ services' = [services EXCEPT ![ops[p].sid].config = ops[p].pre[1].services[ops[p].sid].config]
                 /\ UNCHANGED subs
    /\ UNCHANGED <<registry, nextId, published, removed>>

\* spell_event_bus_api.subscribe(spell_id.clone(), config.clone()).await?
UpdateSubscribe(p) ==
    /\ ops[p].kind = "update_config" /\ ops[p].pc = "subscribe"
    /\ \E ok \in Outcomes :
         /\ failures' = Spend(ok)
         /\ IF ok
            THEN /\ subs' = [subs EXCEPT ![ops[p].sid] = ops[p].rcfg]
                 /\ ops' = [ops EXCEPT ![p] = Return(Log(@, "subscribe", TRUE), "Ok")]
            ELSE /\ ops' = [ops EXCEPT ![p] = Return(Log(@, "subscribe", FALSE), "SubscriptionError")]
                 /\ UNCHANGED subs
    /\ UNCHANGED <<registry, services, nextId, published, removed>>

\* ------------------------------------------------------------- spell_list, get_spell_info
\* spell_list flattening the whole map instead of reading the worker's entry.
ListOfAllWorkers(reg, host_id) == UNION {RegisteredSpells(reg, w) : w \in Targets}

\* get_registered_spells().get(&params.host_id).cloned().unwrap_or_default()
ListOf(reg, host_id) == IF reg[host_id] = None THEN {} ELSE reg[host_id][1]

SpellList(p, env) ==
    /\ ops[p].pc = "idle"
    /\ \E worker \in env.workers :
         ops' = [ops EXCEPT ![p] =
            LET o == Begin(env, "list", worker, worker, 0, "none", "none", {})
            IN [Return(o, "Ok") EXCEPT !.val = Some(ListOf(registry, worker))]]
    /\ UNCHANGED <<registry, services, subs, nextId, published, removed, failures>>

\* get_spell_info: get_trigger_config, then get_script_source_from_file; either
\* read failing, or reporting no success, is the error of get_spell_info.
InfoOf(svcs, worker_id, spell_id, ok_config, ok_script) ==
    IF ~ok_config \/ ~CanCall(svcs, worker_id, spell_id) \/ svcs[spell_id].config = None
    THEN [result |-> "CallError", val |-> None]
    ELSE IF ~ok_script \/ svcs[spell_id].script = None
    THEN [result |-> "CallError", val |-> None]
    ELSE [result |-> "Ok",
          val |-> Some([script |-> svcs[spell_id].script[1], trigger_config |-> svcs[spell_id].config[1]])]

GetSpellInfo(p, env) ==
    /\ ops[p].pc = "idle"
    /\ \E worker \in env.workers, spell_id \in SpellArgs, ok_config \in BOOLEAN, ok_script \in BOOLEAN :
         ops' = [ops EXCEPT ![p] =
            LET o == Begin(env, "get_info", worker, worker, spell_id, "none", "none", {})
                info == InfoOf(services, worker, spell_id, ok_config, ok_script)
            IN [Return(o, info.result) EXCEPT !.val = info.val]]
    /\ UNCHANGED <<registry, services, subs, nextId, published, removed, failures>>

\* The task's result is delivered; the slot is free again.
Finish(p) ==
    /\ ops[p].pc = "done"
    /\ removed' = IF ops[p].kind = "remove" /\ ops[p].result = "Ok" THEN removed \cup {ops[p].sid} ELSE removed
    /\ ops' = [ops EXCEPT ![p] = Idle]
    /\ UNCHANGED <<registry, services, subs, nextId, published, failures>>


\* No pair of requests is under comparison.
NoPair == [phase |-> "setup", start |-> None, reqs |-> <<>>, seq |-> None]

Init ==
    /\ registry = [w \in Targets |-> None]
    /\ services = [s \in SpellIds |-> NoService]
    /\ subs = [s \in SpellIds |-> None]
    /\ nextId = 1
    /\ published = {}
    /\ ops = [p \in Procs |-> Idle]
    /\ removed = {}
    /\ failures = 0
    /\ pair = NoPair

Step(p) ==
    \/ InstallCreateService(p)
    \/ InstallRegister(p)
    \/ InstallCall(p, "set_script_source_to_file")
    \/ InstallCall(p, "set_json_fields")
    \/ InstallCall(p, "set_trigger_config")
    \/ InstallSubscribe(p)
    \/ InstallRollbackUnregister(p)
    \/ InstallRollbackRemoveService(p)
    \/ RemoveUnsubscribe(p)
    \/ RemoveUnregister(p)
    \/ RemoveRemoveService(p)
    \/ UpdateCall(p)
    \/ UpdateUnsubscribe(p)
    \/ UpdateSubscribe(p)
    \/ Finish(p)

\* Builtin calls run one at a time: a call starts when no other is in flight.
Quiet == \A q \in Procs : ops[q].pc = "idle"

SeqEnv == [callers |-> Peers, workers |-> Targets, configs |-> UserConfigs, snapshot |-> TRUE]

SeqNext ==
    /\ UNCHANGED pair
    /\ \E p \in {1} :
        \/ Quiet /\ SpellInstall(p, SeqEnv)
        \/ Quiet /\ SpellRemove(p, SeqEnv)
        \/ Quiet /\ SpellUpdateConfig(p, SeqEnv)
        \/ Quiet /\ SpellList(p, SeqEnv)
        \/ Quiet /\ GetSpellInfo(p, SeqEnv)
        \/ Step(p)

SeqSpec == Init /\ [][SeqNext]_vars

\* Builtin calls of different particles run concurrently.
ConcEnv == [callers |-> {"w1"}, workers |-> {"w1", "w2"}, configs |-> {{"clock", "event"}},
            snapshot |-> FALSE]

Next ==
    /\ UNCHANGED pair
    /\ \E p \in Procs :
        \/ SpellInstall(p, ConcEnv)
        \/ SpellRemove(p, ConcEnv)
        \/ SpellUpdateConfig(p, ConcEnv)
        \/ Step(p)

Spec == Init /\ [][Next]_vars

\* Builtin calls run concurrently, every task that can take a step eventually
\* takes it: the executor polls each task, and each awaited collaborator call
\* returns a result, a failure or a timeout.
FairEnv == [callers |-> {"w1"}, workers |-> {"w1"}, configs |-> {{"clock", "event"}},
            snapshot |-> FALSE]

FairNext ==
    /\ UNCHANGED pair
    /\ \E p \in Procs :
        \/ SpellInstall(p, FairEnv)
        \/ SpellRemove(p, FairEnv)
        \/ SpellUpdateConfig(p, FairEnv)
        \/ Step(p)

FairSpec == Init /\ [][FairNext]_vars /\ \A p \in Procs : WF_vars(UNCHANGED pair /\ Step(p))

\* ------------------------------------------------------------- two requests, twice
\* The same two requests, with the same collaborator faults, are executed from the
\* same state twice: one after the other, then as concurrent tasks.
PairEnv == [callers |-> {"w1"}, workers |-> {"w1", "w2"}, configs |-> {{}, {"clock", "event"}},
            snapshot |-> FALSE]

\* The collaborator call of a request that fails ("none": no call fails).
FaultsOf(kind) ==
    IF kind = "install"
    THEN {"none", "set_trigger_config", "subscribe"}
    ELSE IF kind = "remove" THEN {"none", "unsubscribe", "remove_service"}
    ELSE {"none", "set_trigger_config", "unsubscribe", "subscribe"}

Requests ==
    {[kind |-> "install", caller |-> c, worker |-> w, sid |-> 0, ucfg |-> u, failAt |-> f] :
        c \in PairEnv.callers, w \in PairEnv.workers, u \in PairEnv.configs, f \in FaultsOf("install")}
    \cup {[kind |-> "remove", caller |-> c, worker |-> w, sid |-> s, ucfg |-> {}, failAt |-> f] :
        c \in PairEnv.callers, w \in PairEnv.workers, s \in SpellArgs, f \in FaultsOf("remove")}
    \cup {[kind |-> "update_config", caller |-> c, worker |-> w, sid |-> s, ucfg |-> u, failAt |-> f] :
        c \in PairEnv.callers, w \in PairEnv.workers, s \in SpellArgs, u \in PairEnv.configs,
        f \in FaultsOf("update_config")}

\* The two requests act on different spell ids: an install acts on the id it creates.
DifferentIds(r1, r2) == r1.kind = "install" \/ r2.kind = "install" \/ r1.sid # r2.sid

\* create_service has an id left for every install of the pair.
RoomFor(r1, r2) ==
    Cardinality({i \in {1, 2} : <<r1, r2>>[i].kind = "install"}) <= MaxSpells + 1 - nextId

StartRequest(p, r) ==
    LET env == [callers |-> {r.caller}, workers |-> {r.worker}, configs |-> {r.ucfg}, snapshot |-> FALSE]
    IN \/ r.kind = "install" /\ SpellInstall(p, env)
       \/ r.kind = "remove" /\ SpellRemove(p, env) /\ ops'[p].sid = r.sid
       \/ r.kind = "update_config" /\ SpellUpdateConfig(p, env) /\ ops'[p].sid = r.sid

\* A step of a running task in which exactly the call the request names fails.
PlannedStep(p) ==
    /\ ops[p].pc \notin {"idle", "done"}
    /\ Step(p)
    /\ failures' = IF ops'[p].calls[Len(ops'[p].calls)].call = pair.reqs[p].failAt
                   THEN failures + 1 ELSE failures

\* Builtin calls one at a time, none of whose calls is made to fail, bring the
\* node into some state.
PairSetup ==
    /\ pair.phase = "setup"
    /\ \/ Quiet /\ SpellInstall(1, PairEnv)
       \/ Quiet /\ SpellRemove(1, PairEnv)
       \/ Quiet /\ SpellUpdateConfig(1, PairEnv)
       \/ Step(1)
    /\ failures' = failures
    /\ UNCHANGED pair

PairBegin ==
    /\ pair.phase = "setup" /\ Quiet
    /\ \E r1 \in Requests, r2 \in Requests :
         /\ DifferentIds(r1, r2) /\ RoomFor(r1, r2)
         /\ pair' = [phase |-> "seq",
                     start |-> Some([registry |-> registry, services |-> services, subs |-> subs,
                                     nextId |-> nextId, published |-> published]),
                     reqs |-> <<r1, r2>>, seq |-> None]
    /\ failures' = 0
    /\ UNCHANGED <<registry, services, subs, nextId, published, ops, removed>>

\* The first request runs to its return, then the second.
PairSeqRun ==
    /\ pair.phase = "seq"
    /\ \/ ops[1].pc = "idle" /\ StartRequest(1, pair.reqs[1])
       \/ PlannedStep(1)
       \/ ops[1].pc = "done" /\ ops[2].pc = "idle" /\ StartRequest(2, pair.reqs[2])
       \/ ops[1].pc = "done" /\ PlannedStep(2)
    /\ UNCHANGED pair

\* The outcome of the sequential execution is kept, the node is put back.
PairReset ==
    /\ pair.phase = "seq" /\ ops[1].pc = "done" /\ ops[2].pc = "done"
    /\ pair' = [pair EXCEPT !.phase = "conc",
                            !.seq = Some([registry |-> registry, services |-> services, subs |-> subs, ops |-> ops])]
    /\ registry' = pair.start[1].registry
    /\ services' = pair.start[1].services
    /\ subs' = pair.start[1].subs
    /\ nextId' = pair.start[1].nextId
    /\ published' = pair.start[1].published
    /\ ops' = [p \in Procs |-> Idle]
    /\ failures' = 0
    /\ UNCHANGED removed

\* The two requests run as concurrent tasks, their steps interleaved.
PairConcRun ==
    /\ pair.phase = "conc"
    /\ \E p \in {1, 2} :
         \/ ops[p].pc = "idle" /\ StartRequest(p, pair.reqs[p])
         \/ PlannedStep(p)
    /\ UNCHANGED pair

PairNext == PairSetup \/ PairBegin \/ PairSeqRun \/ PairReset \/ PairConcRun

PairSpec == Init /\ [][PairNext]_vars

\* ------------------------------------------------------------- properties
Pre(o) == o.pre[1]
Completed(o) == o.pc = "done"
Mutating(o) == o.kind \in {"install", "remove", "update_config"}
Invoked(o, name) == \E i \in DOMAIN o.calls : o.calls[i].call = name
Failed(o, name) == \E i \in DOMAIN o.calls : o.calls[i].call = name /\ ~o.calls[i].ok
Succeeded(o, name) == \E i \in DOMAIN o.calls : o.calls[i].call = name /\ o.calls[i].ok
\* Registry, services (with the persisted spell fields) and subscriptions are what
\* they were when the task started.
UnchangedSince(o) ==
    /\ registry = Pre(o).registry
    /\ services = Pre(o).services
    /\ subs = Pre(o).subs
PermissionErrors == {"RootScope", "UnknownWorker", "Unauthorized"}
\* The caller is neither the management peer, nor the worker, nor the worker's creator.
Outsider(caller, worker) ==
    /\ caller # Management
    /\ caller # worker
    /\ worker \in DOMAIN WorkerCreators => caller # WorkerCreators[worker]

\* C1: install, remove and update_config by a caller that is neither management,
\* nor the target worker, nor its creator return a permission error and leave the
\* registry, the services, the persisted fields and the subscriptions unchanged.
C1_OutsiderDenied ==
    \A p \in Procs :
        (Completed(ops[p]) /\ Mutating(ops[p]) /\ Outsider(ops[p].caller, ops[p].worker))
            => (ops[p].result \in PermissionErrors /\ UnchangedSince(ops[p]))

C1_Witness ==
    \E p \in Procs :
        /\ Completed(ops[p]) /\ ops[p].kind = "remove"
        /\ Outsider(ops[p].caller, ops[p].worker)
        /\ ops[p].worker \in DOMAIN WorkerCreators
        /\ ops[p].sid \in RegisteredSpells(registry, ops[p].worker)
        /\ subs[ops[p].sid] # None

\* C2: an install on the host (root) worker by a caller other than management,
\* the host itself and the host's creator included, returns a permission error;
\* no service is created, nothing is registered, persisted or subscribed.
C2_RootScopeDenied ==
    \A p \in Procs :
        (Completed(ops[p]) /\ ops[p].kind = "install" /\ ops[p].worker = HostId /\ ops[p].caller # Management)
            => /\ ops[p].result \in PermissionErrors
               /\ UnchangedSince(ops[p])
               /\ \A name \in {"create_service", "register_spell", "set_script_source_to_file",
                               "set_json_fields", "set_trigger_config", "subscribe"} : ~Invoked(ops[p], name)

C2_Witness ==
    \E p \in Procs :
        /\ Completed(ops[p]) /\ ops[p].kind = "install" /\ ops[p].worker = HostId
        /\ ops[p].caller = WorkerCreators[HostId]
        /\ ops[p].result = "RootScope"

\* C3: an install whose config resolves to a present trigger set and whose
\* subscribe fails returns an error, and afterwards the new spell id is not in
\* the worker's registry set and its service does not exist.
C3_InstallAtomic ==
    \A p \in Procs :
        (Completed(ops[p]) /\ ops[p].kind = "install" /\ ops[p].rcfg # None /\ Failed(ops[p], "subscribe"))
            => /\ ops[p].result # "Ok"
               /\ ops[p].sid \notin RegisteredSpells(registry, ops[p].worker)
               /\ ~ServiceExists(services, ops[p].sid)

\* C4: an authorized remove whose unsubscribe fails returns an error without
\* invoking unregister_spell or remove_service; the spell is still registered and
\* its service still exists.
C4_RemoveAborts ==
    \A p \in Procs :
        (Completed(ops[p]) /\ ops[p].kind = "remove" /\ Failed(ops[p], "unsubscribe"))
            => /\ ops[p].result # "Ok"
               /\ ~Invoked(ops[p], "unregister_spell")
               /\ ~Invoked(ops[p], "remove_service")
               /\ registry = Pre(ops[p]).registry
               /\ ServiceExists(services, ops[p].sid)
               /\ (ops[p].sid \in RegisteredSpells(Pre(ops[p]).registry, ops[p].worker)
                     => ops[p].sid \in RegisteredSpells(registry, ops[p].worker))

C4_Witness ==
    \E p \in Procs :
        /\ Completed(ops[p]) /\ ops[p].kind = "remove" /\ Failed(ops[p], "unsubscribe")
        /\ ops[p].sid \in RegisteredSpells(registry, ops[p].worker)
        /\ ServiceExists(services, ops[p].sid)

C6_ServiceHasRegistryEntry ==
    Quiet => \A s \in SpellIds :
        ServiceExists(services, s) => s \in RegisteredSpells(registry, services[s].owner)

\* C7: after a successful install(S, data, C), get_info of the returned id returns
\* script S and trigger config C as the user gave it, not its resolved form.
C7_InstallInfoRoundTrip ==
    \A p \in Procs :
        (Completed(ops[p]) /\ ops[p].kind = "install" /\ ops[p].result = "Ok")
            => InfoOf(services, ops[p].worker, ops[p].sid, TRUE, TRUE)
                 = [result |-> "Ok", val |-> Some([script |-> ops[p].script, trigger_config |-> ops[p].ucfg])]

C7_Witness ==
    \E p \in Procs :
        /\ Completed(ops[p]) /\ ops[p].kind = "install" /\ ops[p].result = "Ok"
        /\ ops[p].ucfg = {"clock", "event"}
        /\ InfoOf(services, ops[p].worker, ops[p].sid, TRUE, TRUE).result = "Ok"

\* C8: list in the context of worker A returns exactly the registry set of A, with
\* no id registered only under another worker, and the empty set (not an error)
\* for a worker without a registry entry.
C8_ListScoped ==
    \A p \in Procs :
        (Completed(ops[p]) /\ ops[p].kind = "list")
            => /\ ops[p].result = "Ok"
               /\ ops[p].val = Some(RegisteredSpells(registry, ops[p].worker))
               /\ \A b \in Targets \ {ops[p].worker} :
                    \A s \in RegisteredSpells(registry, b) \ RegisteredSpells(registry, ops[p].worker) :
                        s \notin ops[p].val[1]
               /\ (registry[ops[p].worker] = None => ops[p].val = Some({}))

C8_Witness ==
    \E p \in Procs :
        /\ Completed(ops[p]) /\ ops[p].kind = "list"
        /\ ops[p].val[1] # {}
        /\ \E b \in Targets \ {ops[p].worker} : RegisteredSpells(registry, b) # {}

\* C9: an authorized update_config whose config normalizes to absence, with the
\* persistence call and the unsubscribe succeeding, succeeds without invoking
\* subscribe; the spell stays registered with its service and has no subscription.
C9_UpdateToEmpty ==
    \A p \in Procs :
        (/\ Completed(ops[p]) /\ ops[p].kind = "update_config"
         /\ FromUserConfig(ops[p].ucfg) = [ok |-> TRUE, val |-> None]
         /\ \A i \in DOMAIN ops[p].calls : ops[p].calls[i].ok)
            => /\ ops[p].result = "Ok"
               /\ Succeeded(ops[p], "unsubscribe")
               /\ ~Invoked(ops[p], "subscribe")
               /\ subs[ops[p].sid] = None
               /\ registry = Pre(ops[p]).registry
               /\ ServiceExists(services, ops[p].sid)

C9_Witness ==
    \E p \in Procs :
        /\ Completed(ops[p]) /\ ops[p].kind = "update_config" /\ ops[p].result = "Ok"
        /\ ops[p].ucfg = {}
        /\ Pre(ops[p]).subs[ops[p].sid] # None
        /\ ops[p].sid \in RegisteredSpells(registry, ops[p].worker)

\* C10: a remove of a spell id that an earlier remove has removed changes
\* nothing: it returns (a no-op or an error) with the registry sets, the services
\* and the subscriptions as they were before it.
C10_SecondRemoveHarmless ==
    \A p \in Procs :
        (Completed(ops[p]) /\ ops[p].kind = "remove" /\ ops[p].sid \in removed)
            => UnchangedSince(ops[p])

C10_Witness ==
    \E p \in Procs :
        /\ Completed(ops[p]) /\ ops[p].kind = "remove" /\ ops[p].sid \in removed
        /\ ~Outsider(ops[p].caller, ops[p].worker)
        /\ \E w \in Targets : RegisteredSpells(registry, w) # {}

\* The checks that precede the mutations, and the calls that change state.
Checks == {"authorize", "to_service_id", "from_user_config"}
MutatingCalls == {"create_service", "register_spell", "set_script_source_to_file", "set_json_fields",
                  "set_trigger_config", "subscribe", "unsubscribe", "unregister_spell", "remove_service"}
SucceededBefore(o, name, i) == \E j \in 1..(i - 1) : o.calls[j].call = name /\ o.calls[j].ok

\* C11: in install and update_config the permission check and the trigger-config
\* validation both succeed before the first mutating call, in remove the
\* permission check does; an operation whose check failed makes no mutating call
\* and returns with the state it started in.
C11_ChecksBeforeMutation ==
    \A p \in Procs :
        /\ \A i \in DOMAIN ops[p].calls :
              ops[p].calls[i].call \in MutatingCalls
                => /\ SucceededBefore(ops[p], "authorize", i)
                   /\ ops[p].kind \in {"install", "update_config"} => SucceededBefore(ops[p], "from_user_config", i)
        /\ (Failed(ops[p], "authorize") \/ Failed(ops[p], "from_user_config"))
              => /\ \A i \in DOMAIN ops[p].calls : ops[p].calls[i].call \notin MutatingCalls
                 /\ Completed(ops[p])
                 /\ UnchangedSince(ops[p])

C11_Witness ==
    \E p \in Procs :
        /\ ops[p].kind = "update_config" /\ Succeeded(ops[p], "set_trigger_config")
        /\ Invoked(ops[p], "unsubscribe")
        /\ \E w \in Targets : \E s \in RegisteredSpells(registry, w) : services[s].config = Some({"clock", "event"})

\* C12: an install one of whose three persistence calls fails returns an error
\* without compensation: the new id stays registered, its service exists, no
\* later persistence call, no subscribe, no unregister and no remove_service is
\* invoked, and the spell has no subscription.
C12_PersistFailureUncompensated ==
    \A p \in Procs :
        (/\ Completed(ops[p]) /\ ops[p].kind = "install"
         /\ \E m \in {"set_script_source_to_file", "set_json_fields", "set_trigger_config"} : Failed(ops[p], m))
            => /\ ops[p].result # "Ok"
               /\ ops[p].sid \in RegisteredSpells(registry, ops[p].worker)
               /\ ServiceExists(services, ops[p].sid)
               /\ subs[ops[p].sid] = None
               /\ ~ops[p].calls[Len(ops[p].calls)].ok
               /\ \A name \in {"subscribe", "unregister_spell", "remove_service"} : ~Invoked(ops[p], name)

C12_Witness ==
    \E p \in Procs :
        /\ Completed(ops[p]) /\ ops[p].kind = "install"
        /\ Succeeded(ops[p], "set_script_source_to_file") /\ Failed(ops[p], "set_json_fields")
        /\ ops[p].rcfg # None
        /\ ops[p].sid \in RegisteredSpells(registry, ops[p].worker)

\* C13: an update_config whose unsubscribe or subscribe fails returns an error
\* and leaves the new raw config persisted (not reverted); the registry is
\* unchanged and the service is otherwise unchanged.
C13_UpdateNotReverted ==
    \A p \in Procs :
        (/\ Completed(ops[p]) /\ ops[p].kind = "update_config"
         /\ (Failed(ops[p], "unsubscribe") \/ Failed(ops[p], "subscribe")))
            => /\ ops[p].result # "Ok"
               /\ services[ops[p].sid].config = Some(ops[p].ucfg)
               /\ registry = Pre(ops[p]).registry
               /\ services = [Pre(ops[p]).services EXCEPT ![ops[p].sid].config = Some(ops[p].ucfg)]

C13_Witness ==
    \E p \in Procs :
        /\ Completed(ops[p]) /\ ops[p].kind = "update_config" /\ Failed(ops[p], "subscribe")
        /\ Pre(ops[p]).services[ops[p].sid].config = Some({})
        /\ services[ops[p].sid].config = Some({"clock", "event"})

\* The reference predicate of authorize_install.
InstallAllowed(caller, worker) ==
    IF worker = HostId THEN caller = Management
    ELSE caller = Management \/ caller = worker \/ caller = WorkerCreators[worker]

C15_ManagementOrSelfSuffices ==
    \A p \in Procs :
        (/\ ops[p].kind \in {"remove", "update_config"}
         /\ (ops[p].caller = Management \/ ops[p].caller = ops[p].worker))
            => Succeeded(ops[p], "authorize")

\* C15 amended: remove and update_config pass authorization for every caller that
\* is management or the target worker when the worker has a recorded creator, the
\* host included (no root-scope case); for a worker without a recorded creator
\* they return the lookup's error, whoever calls, and change nothing.
C15_ManagementOrSelfOfKnownWorker ==
    \A p \in Procs :
        ops[p].kind \in {"remove", "update_config"}
            => /\ (/\ ops[p].worker \in DOMAIN WorkerCreators
                   /\ (ops[p].caller = Management \/ ops[p].caller = ops[p].worker))
                      => Succeeded(ops[p], "authorize")
               /\ ops[p].worker \notin DOMAIN WorkerCreators
                      => /\ Completed(ops[p]) /\ ops[p].result = "UnknownWorker"
                         /\ UnchangedSince(ops[p])

C15_Witness ==
    \E p \in Procs :
        /\ ops[p].kind = "update_config" /\ ops[p].caller = HostId /\ ops[p].worker = HostId
        /\ Succeeded(ops[p], "authorize") /\ Succeeded(ops[p], "set_trigger_config")

\* Every registered spell has a persisted trigger config that normalizes, and its
\* subscription is the resolved form of that config: none when it normalizes to
\* absence.
SubscriptionsMatchConfigs(reg, svcs, sb) ==
    \A w \in Targets : \A s \in RegisteredSpells(reg, w) :
        /\ svcs[s].config # None
        /\ FromUserConfig(svcs[s].config[1]).ok
        /\ sb[s] = FromUserConfig(svcs[s].config[1]).val
\* No call of the task failed after its checks.
NoCallFailed(o) == \A i \in DOMAIN o.calls : o.calls[i].ok \/ o.calls[i].call \in Checks

\* C16: with operations one at a time and no failing collaborator call, each
\* completed install, update_config or remove that starts in a state where every
\* registered spell is subscribed exactly as its persisted config resolves ends
\* in such a state (the initial state is one: nothing is registered).
C16_SubscribedIffConfigured ==
    \A p \in Procs :
        (/\ Completed(ops[p]) /\ Mutating(ops[p]) /\ NoCallFailed(ops[p])
         /\ SubscriptionsMatchConfigs(Pre(ops[p]).registry, Pre(ops[p]).services, Pre(ops[p]).subs))
            => SubscriptionsMatchConfigs(registry, services, subs)

C16_Witness ==
    \E p \in Procs :
        /\ Completed(ops[p]) /\ ops[p].kind = "update_config" /\ ops[p].result = "Ok"
        /\ SubscriptionsMatchConfigs(Pre(ops[p]).registry, Pre(ops[p]).services, Pre(ops[p]).subs)
        /\ Pre(ops[p]).subs[ops[p].sid] # None /\ subs[ops[p].sid] = None
        /\ \E s \in SpellIds \ {ops[p].sid} : subs[s] # None

\* C17: an authorized install whose config normalizes to absence and whose
\* create_service and three persistence calls succeed returns the new id without
\* invoking subscribe; the spell is registered, its service exists, and it has no
\* subscription.
C17_InstallWithoutTriggers ==
    \A p \in Procs :
        (/\ Completed(ops[p]) /\ ops[p].kind = "install"
         /\ Succeeded(ops[p], "authorize")
         /\ FromUserConfig(ops[p].ucfg) = [ok |-> TRUE, val |-> None]
         /\ \A name \in {"create_service", "set_script_source_to_file", "set_json_fields", "set_trigger_config"} :
                Succeeded(ops[p], name))
            => /\ ops[p].result = "Ok"
               /\ ops[p].sid \in SpellIds
               /\ ~Invoked(ops[p], "subscribe")
               /\ ops[p].sid \in RegisteredSpells(registry, ops[p].worker)
               /\ ServiceExists(services, ops[p].sid)
               /\ subs[ops[p].sid] = None

C17_Witness ==
    \E p \in Procs :
        /\ Completed(ops[p]) /\ ops[p].kind = "install" /\ ops[p].result = "Ok"
        /\ ops[p].ucfg = {}
        /\ services[ops[p].sid].config = Some({})
        /\ subs[ops[p].sid] = None

\* C18: when a remove returns success, with no other operation in flight, the
\* spell id is not in the worker's registry set, its service does not exist, and
\* it has no subscription.
C18_RemovedIsGone ==
    \A p \in Procs :
        (Completed(ops[p]) /\ ops[p].kind = "remove" /\ ops[p].result = "Ok")
            => /\ Succeeded(ops[p], "unsubscribe") /\ Succeeded(ops[p], "unregister_spell")
               /\ Succeeded(ops[p], "remove_service")
               /\ ops[p].sid \notin RegisteredSpells(registry, ops[p].worker)
               /\ ~ServiceExists(services, ops[p].sid)
               /\ subs[ops[p].sid] = None

C18_Witness ==
    \E p \in Procs :
        /\ Completed(ops[p]) /\ ops[p].kind = "remove" /\ ops[p].result = "Ok"
        /\ ops[p].sid \in RegisteredSpells(Pre(ops[p]).registry, ops[p].worker)
        /\ Pre(ops[p]).subs[ops[p].sid] # None

\* C19: an update_config whose persistence call fails returns an error having
\* invoked neither unsubscribe nor subscribe; the subscriptions are what they
\* were before the call.
C19_UpdateCallFailureKeepsSubscription ==
    \A p \in Procs :
        (Completed(ops[p]) /\ ops[p].kind = "update_config" /\ Failed(ops[p], "set_trigger_config"))
            => /\ ops[p].result # "Ok"
               /\ ~Invoked(ops[p], "unsubscribe")
               /\ ~Invoked(ops[p], "subscribe")
               /\ subs = Pre(ops[p]).subs

C19_Witness ==
    \E p \in Procs :
        /\ Completed(ops[p]) /\ ops[p].kind = "update_config" /\ Failed(ops[p], "set_trigger_config")
        /\ ops[p].ucfg = {}
        /\ subs[ops[p].sid] # None

\* The positions of a call in the call log of a task.
CallsOf(o, name) == {i \in DOMAIN o.calls : o.calls[i].call = name}

\* C20: an update_config that got past its persistence call has invoked
\* unsubscribe exactly once, before any subscribe, whether or not the spell was
\* subscribed; it invokes subscribe at most once, and only after that unsubscribe
\* succeeded and with a config that resolved to a present trigger set.
C20_UnsubscribeThenSubscribe ==
    \A p \in Procs :
        (Completed(ops[p]) /\ ops[p].kind = "update_config" /\ Succeeded(ops[p], "set_trigger_config"))
            => /\ Cardinality(CallsOf(ops[p], "unsubscribe")) = 1
               /\ Cardinality(CallsOf(ops[p], "subscribe")) <= 1
               /\ \A i \in CallsOf(ops[p], "subscribe") :
                     /\ SucceededBefore(ops[p], "unsubscribe", i)
                     /\ FromUserConfig(ops[p].ucfg).val # None
                     /\ ops[p].rcfg = FromUserConfig(ops[p].ucfg).val

C20_Witness ==
    \E p \in Procs :
        /\ Completed(ops[p]) /\ ops[p].kind = "update_config"
        /\ Succeeded(ops[p], "unsubscribe") /\ Succeeded(ops[p], "subscribe")
        /\ Pre(ops[p]).subs[ops[p].sid] = None

\* C21 as stated: an install with a malformed trigger config returns a validation
\* error for every caller, authorized or not, and touches no state.
C21_ValidationBeforeAuthorization ==
    \A p \in Procs :
        (Completed(ops[p]) /\ ops[p].kind = "install" /\ ~FromUserConfig(ops[p].ucfg).ok)
            => (ops[p].result = "ValidationError" /\ UnchangedSince(ops[p]))

\* C21 amended: install runs its permission checks first and normalizes the config
\* next, before any mutation. With a malformed config it touches no state for
\* every caller; it returns a validation error to a caller that passes the
\* permission checks, and the permission error, without normalizing, to one that
\* does not.
C21_AuthorizationBeforeValidation ==
    \A p \in Procs :
        (Completed(ops[p]) /\ ops[p].kind = "install" /\ ~FromUserConfig(ops[p].ucfg).ok)
            => /\ UnchangedSince(ops[p])
               /\ \A i \in DOMAIN ops[p].calls : ops[p].calls[i].call \notin MutatingCalls
               /\ ops[p].calls[1].call = "authorize"
               /\ InstallPermission(ops[p].caller, ops[p].worker) = "Ok"
                     => (ops[p].result = "ValidationError" /\ Failed(ops[p], "from_user_config"))
               /\ InstallPermission(ops[p].caller, ops[p].worker) # "Ok"
                     => /\ ops[p].result = InstallPermission(ops[p].caller, ops[p].worker)
                        /\ ops[p].result \in PermissionErrors
                        /\ ~Invoked(ops[p], "from_user_config")

C21_Witness ==
    \E p \in Procs :
        /\ Completed(ops[p]) /\ ops[p].kind = "install" /\ ops[p].ucfg = {"badclock"}
        /\ ops[p].caller = "ghost" /\ ops[p].worker = "w1"
        /\ ops[p].result = "Unauthorized"
        /\ \E w \in Targets : RegisteredSpells(registry, w) # {}

\* C24: update_config, at every step and whatever it returns, leaves the registry,
\* the set of existing services with their owners, the script and key/value data
\* of the addressed spell, and every other spell's service fields and subscription
\* as they were when it started.
C24_UpdateFrame ==
    \A p \in Procs :
        ops[p].kind = "update_config"
            => /\ registry = Pre(ops[p]).registry
               /\ \A s \in SpellIds :
                     /\ services[s].exists = Pre(ops[p]).services[s].exists
                     /\ services[s].owner = Pre(ops[p]).services[s].owner
                     /\ services[s].script = Pre(ops[p]).services[s].script
                     /\ services[s].data = Pre(ops[p]).services[s].data
                     /\ s # ops[p].sid => /\ services[s] = Pre(ops[p]).services[s]
                                          /\ subs[s] = Pre(ops[p]).subs[s]

C24_Witness ==
    \E p \in Procs :
        /\ Completed(ops[p]) /\ ops[p].kind = "update_config" /\ ops[p].result = "Ok"
        /\ services[ops[p].sid].config # Pre(ops[p]).services[ops[p].sid].config
        /\ subs[ops[p].sid] # Pre(ops[p]).subs[ops[p].sid]
        /\ \E s \in SpellIds \ {ops[p].sid} : ServiceExists(services, s) /\ subs[s] # None

\* C26: with operations one at a time and failures injected, whenever no
\* operation is running every spell id with an active subscription has a service
\* and is in the registry set of the worker that owns it.
C26_SubscribedIsRegistered ==
    (\A p \in Procs : ops[p].pc \in {"idle", "done"})
        => \A s \in SpellIds :
              subs[s] # None => /\ ServiceExists(services, s)
                                /\ s \in RegisteredSpells(registry, services[s].owner)

\* C27: an update_config on a subscribed spell whose unsubscribe succeeds and whose
\* subscribe fails returns an error and leaves the spell without any subscription
\* (the previous one is not restored), registered as before, with the new,
\* present-trigger config persisted.
C27_FailedResubscribeLeavesNone ==
    \A p \in Procs :
        (/\ Completed(ops[p]) /\ ops[p].kind = "update_config"
         /\ Succeeded(ops[p], "unsubscribe") /\ Failed(ops[p], "subscribe"))
            => /\ ops[p].result # "Ok"
               /\ subs[ops[p].sid] = None
               /\ registry = Pre(ops[p]).registry
               /\ services[ops[p].sid].config = Some(ops[p].ucfg)
               /\ FromUserConfig(ops[p].ucfg).ok /\ FromUserConfig(ops[p].ucfg).val # None

C27_Witness ==
    \E p \in Procs :
        /\ Completed(ops[p]) /\ ops[p].kind = "update_config"
        /\ Succeeded(ops[p], "unsubscribe") /\ Failed(ops[p], "subscribe")
        /\ Pre(ops[p]).subs[ops[p].sid] # None
        /\ ops[p].sid \in RegisteredSpells(registry, ops[p].worker)

\* C28: a remove in the context of worker A, by a caller authorized on A, naming
\* a spell id registered under another worker B, leaves the registry, the spell's
\* service and the spell's subscription as they were, whatever it returns.
C28_CrossWorkerRemoveIsolated ==
    \A p \in Procs :
        (/\ Completed(ops[p]) /\ ops[p].kind = "remove" /\ Succeeded(ops[p], "authorize")
         /\ \E b \in Targets \ {ops[p].worker} : ops[p].sid \in RegisteredSpells(Pre(ops[p]).registry, b))
            => /\ registry = Pre(ops[p]).registry
               /\ services[ops[p].sid] = Pre(ops[p]).services[ops[p].sid]
               /\ subs[ops[p].sid] = Pre(ops[p]).subs[ops[p].sid]

\* A remove and an update_config with a present config, both on the same spell
\* id, have both returned success.
RemoveAndUpdateSucceeded(p, q) ==
    /\ p # q
    /\ Completed(ops[p]) /\ ops[p].kind = "remove" /\ ops[p].result = "Ok"
    /\ Completed(ops[q]) /\ ops[q].kind = "update_config" /\ ops[q].result = "Ok"
    /\ ops[p].sid = ops[q].sid
    /\ ops[q].rcfg # None

\* C23: a remove and a concurrent update_config on the same spell id are not
\* excluded from each other: both can return success, and when they have, the
\* spell is out of the worker's registry set and its service is gone, while its
\* subscription is either none or, when the update subscribed after the remove
\* unsubscribed, the resolved config of the update, still active.
C23_RemoveUpdateRace ==
    \A p, q \in Procs :
        RemoveAndUpdateSucceeded(p, q)
            => /\ ops[p].sid \notin RegisteredSpells(registry, ops[p].worker)
               /\ ~ServiceExists(services, ops[p].sid)
               /\ subs[ops[p].sid] \in {None, FromUserConfig(ops[q].ucfg).val}

\* The race of C23 with no collaborator failure: the subscription outlives the spell.
C23_Witness ==
    \E p, q \in Procs :
        /\ RemoveAndUpdateSucceeded(p, q)
        /\ \A i \in DOMAIN ops[p].calls : ops[p].calls[i].ok
        /\ \A i \in DOMAIN ops[q].calls : ops[q].calls[i].ok
        /\ \A w \in Targets : ops[p].sid \notin RegisteredSpells(registry, w)
        /\ ~ServiceExists(services, ops[p].sid)
        /\ subs[ops[p].sid] # None

\* C25: under fair scheduling, with every collaborator call returning, every
\* started install, remove or update_config eventually returns, with success or
\* an error, whatever the other tasks do.
C25_EventuallyReturns ==
    \A p \in Procs : (ops[p].pc \notin {"idle", "done"}) ~> (ops[p].pc = "done")

C25_Witness ==
    \E p, q \in Procs :
        /\ p # q
        /\ ops[p].kind = "remove" /\ ops[p].pc = "unregister_spell"
        /\ ops[q].kind = "remove" /\ ops[q].pc = "unregister_spell"
        /\ ops[p].sid = ops[q].sid

\* The sequential outcome with the two ids the pair's installs created exchanged:
\* which install gets which fresh id depends on the order of their create_service.
SwapIds(x) ==
    LET a == pair.start[1].nextId
    IN IF x = a THEN a + 1 ELSE IF x = a + 1 THEN a ELSE x
SequentialOutcome(swap) ==
    LET s == pair.seq[1]
        ren(x) == IF swap THEN SwapIds(x) ELSE x
    IN [registry |-> [w \in Targets |-> IF s.registry[w] = None THEN None
                                        ELSE Some({ren(x) : x \in s.registry[w][1]})],
        services |-> [x \in SpellIds |-> s.services[ren(x)]],
        subs |-> [x \in SpellIds |-> s.subs[ren(x)]],
        ops |-> [p \in Procs |-> [s.ops[p] EXCEPT !.sid = ren(@)]]]
ConcurrentOutcome == [registry |-> registry, services |-> services, subs |-> subs, ops |-> ops]
BothInstalls ==
    /\ pair.reqs[1].kind = "install" /\ pair.reqs[2].kind = "install"
    /\ pair.start[1].nextId + 1 <= MaxSpells

\* C22: two operations on different spell ids, run as concurrent tasks with their
\* steps interleaved in any way, return the same results (the same call by call)
\* and end in the same registry, services, persisted fields and subscriptions as
\* the two run one after the other from the same state with the same faults, up
\* to which of two installs received which fresh id.
C22_DifferentIdsIndependent ==
    (pair.phase = "conc" /\ ops[1].pc = "done" /\ ops[2].pc = "done")
        => \/ ConcurrentOutcome = SequentialOutcome(FALSE)
           \/ BothInstalls /\ ConcurrentOutcome = SequentialOutcome(TRUE)

C22_Witness ==
    /\ pair.phase = "conc" /\ ops[1].pc = "done" /\ ops[2].pc = "done"
    /\ pair.reqs[1].kind = "remove" /\ pair.reqs[2].kind = "update_config"
    /\ pair.reqs[1].worker = pair.reqs[2].worker
    /\ ops[1].result = "Ok" /\ ops[2].result = "Ok"
    /\ registry # pair.start[1].registry
    /\ subs[ops[2].sid] # pair.start[1].subs[ops[2].sid]

====
